---- MODULE Spec2Model ----
(***************************************************************************)
(* Model of src/hass_mqtt/climate.rs of govee2mqtt: the target-temperature *)
(* number entity (capability parsing, entity construction, publication)    *)
(* and the inbound set-temperature command handler.                        *)
(*                                                                         *)
(* Text is a sequence of one-character strings, so that formatting,        *)
(* splitting and token parsing are computed and not assumed.  An           *)
(* Option<T> is a sequence of length 0 (None) or 1 (Some).  A real number  *)
(* is an exact fraction [n, d] in lowest terms with d > 0.                 *)
(***************************************************************************)
EXTENDS Integers, Sequences, FiniteSets, TLC

VARIABLES
    pref,        \* StateHandle: the display-unit preference (TemperatureScale)
    pending,     \* TargetTemperatureEntity::new suspended at its .await: Option of its locals
    entities,    \* every finished call of TargetTemperatureEntity::new: arguments, snapshot, result
    published,   \* what NumberConfig::publish handed to the publisher, in order
    notified,    \* results returned by notify_state, in order
    lastCommand  \* the last finished mqtt_set_temperature invocation: Option of input, calls, result

vars == <<pref, pending, entities, published, notified, lastCommand>>

-----------------------------------------------------------------------------
(* Bounds of the model *)

MaxEntities == 2
MaxPublish == 2
MaxNotify == 2

-----------------------------------------------------------------------------
(* Option and Result *)

None == <<>>
Some(x) == <<x>>
IsSome(o) == Len(o) = 1

Ok(x) == [ok |-> TRUE, val |-> x]
Err(e) == [ok |-> FALSE, err |-> e]

-----------------------------------------------------------------------------
(* Text literals *)

Txt_Celsius == <<"C", "e", "l", "s", "i", "u", "s">>
Txt_Farenheit == <<"F", "a", "r", "e", "n", "h", "e", "i", "t">>
Txt_Fahrenheit == <<"F", "a", "h", "r", "e", "n", "h", "e", "i", "t">>
Txt_Kelvin == <<"K", "e", "l", "v", "i", "n">>
Txt_gv2mqtt == <<"g", "v", "2", "m", "q", "t", "t">>
Txt_set_temperature ==
    <<"s", "e", "t", "-", "t", "e", "m", "p", "e", "r", "a", "t", "u", "r", "e">>
Txt_Target_Temperature ==
    <<"T", "a", "r", "g", "e", "t", " ", "T", "e", "m", "p", "e", "r", "a", "t", "u", "r", "e">>

-----------------------------------------------------------------------------
(* Exact fractions *)

RECURSIVE Gcd(_, _)
Gcd(a, b) == IF b = 0 THEN a ELSE Gcd(b, a % b)

Abs(i) == IF i < 0 THEN -i ELSE i

\* n/d in lowest terms, d > 0 on entry
Frac(n, d) ==
    LET g == Gcd(Abs(n), d)
    IN  [n |-> n \div g, d |-> d \div g]

FromInt(i) == [n |-> i, d |-> 1]

FracLeq(a, b) == a.n * b.d <= b.n * a.d
FracLt(a, b) == a.n * b.d < b.n * a.d

\* f64::floor and f64::ceil, as integers
Floor(r) == r.n \div r.d
Ceil(r) == -((-r.n) \div r.d)

-----------------------------------------------------------------------------
(* crate::temperature *)

TemperatureUnits == {"Units::Celsius", "Units::Farenheit"}
TemperatureScale == {"Scale::Celsius", "Scale::Farenheit"}

\* impl From<TemperatureScale> for TemperatureUnits
ScaleIntoUnits(scale) ==
    IF scale = "Scale::Celsius" THEN "Units::Celsius" ELSE "Units::Farenheit"

\* TemperatureValue::new
TemperatureValue_new(value, unit) == [value |-> value, unit |-> unit]

\* TemperatureValue::as_unit: the identity on the value's own unit, otherwise the
\* Celsius <-> Fahrenheit affine transform
TemperatureValue_as_unit(tv, unit) ==
    IF tv.unit = unit THEN tv
    ELSE IF unit = "Units::Farenheit"
         THEN [value |-> Frac(9 * tv.value.n + 160 * tv.value.d, 5 * tv.value.d),
               unit |-> unit]
         ELSE [value |-> Frac(5 * (tv.value.n - 32 * tv.value.d), 9 * tv.value.d),
               unit |-> unit]

\* impl FromStr for TemperatureScale: exactly the two wire tokens
TemperatureScale_from_str(s) ==
    IF s = Txt_Celsius THEN Ok("Scale::Celsius")
    ELSE IF s = Txt_Farenheit THEN Ok("Scale::Farenheit")
    ELSE Err("ParseError: unknown temperature scale")

\* impl Display for TemperatureScale
TemperatureScale_to_string(scale) ==
    IF scale = "Scale::Celsius" THEN Txt_Celsius ELSE Txt_Farenheit

\* TemperatureScale::unit_of_measurement
TemperatureScale_unit_of_measurement(scale) ==
    IF scale = "Scale::Celsius" THEN <<"deg", "C">> ELSE <<"deg", "F">>


Digits == {"0", "1", "2", "3", "4", "5", "6", "7", "8", "9"}

DigitVal(c) ==
    CASE c = "0" -> 0 [] c = "1" -> 1 [] c = "2" -> 2 [] c = "3" -> 3 [] c = "4" -> 4
      [] c = "5" -> 5 [] c = "6" -> 6 [] c = "7" -> 7 [] c = "8" -> 8 [] c = "9" -> 9

IsDigits(s) == Len(s) > 0 /\ \A i \in 1..Len(s) : s[i] \in Digits

RECURSIVE DigitsToInt(_)
DigitsToInt(s) ==
    IF s = <<>> THEN 0
    ELSE 10 * DigitsToInt(SubSeq(s, 1, Len(s) - 1)) + DigitVal(s[Len(s)])

RECURSIVE Pow10(_)
Pow10(k) == IF k = 0 THEN 1 ELSE 10 * Pow10(k - 1)

\* str::parse::<f64> on a decimal number: an optional sign, digits, and an
\* optional fractional part
ParseDecimal(text) ==
    LET signed == Len(text) > 0 /\ text[1] \in {"-", "+"}
        neg == Len(text) > 0 /\ text[1] = "-"
        body == IF signed THEN Tail(text) ELSE text
        dots == {i \in 1..Len(body) : body[i] = "."}
        dot == IF dots = {} THEN Len(body) + 1 ELSE CHOOSE i \in dots : \A j \in dots : i <= j
        whole == SubSeq(body, 1, dot - 1)
        part == SubSeq(body, dot + 1, Len(body))
        wellFormed == /\ Cardinality(dots) <= 1
                      /\ IsDigits(whole)
                      /\ (dots # {} => IsDigits(part))
        magnitude == Frac(DigitsToInt(whole) * Pow10(Len(part)) + DigitsToInt(part),
                          Pow10(Len(part)))
    IN  IF ~wellFormed THEN Err("ParseError: not a number")
        ELSE Ok(IF neg THEN [n |-> -magnitude.n, d |-> magnitude.d] ELSE magnitude)

\* TemperatureValue::parse_with_optional_scale, called with Some(scale): the
\* number in the text, tagged with the given scale
TemperatureValue_parse_with_optional_scale(text, scale) ==
    LET number == ParseDecimal(text)
    IN  IF ~number.ok THEN Err(number.err)
        ELSE Ok(TemperatureValue_new(number.val, ScaleIntoUnits(scale[1])))

-----------------------------------------------------------------------------
(* crate::service::hass *)

\* The substitute of one character: a legal character stands for itself, the
\* escape character "_" is doubled, and an illegal one becomes "_" and a letter
SafeChar(c) ==
    CASE c = "_" -> <<"_", "_">>
      [] c = "/" -> <<"_", "s">>
      [] c = "+" -> <<"_", "p">>
      [] c = "#" -> <<"_", "h">>
      [] OTHER -> <<c>>

\* topic_safe_string
RECURSIVE topic_safe_string(_)
topic_safe_string(s) ==
    IF s = <<>> THEN <<>> ELSE SafeChar(Head(s)) \o topic_safe_string(Tail(s))

\* topic_safe_id
topic_safe_id(device) == topic_safe_string(device.id)

-----------------------------------------------------------------------------
(* crate::platform_api *)

\* DeviceCapability::struct_field_by_name: the first field of that name
struct_field_by_name(instance, name) ==
    LET hits == {i \in 1..Len(instance.fields) : instance.fields[i].field_name = name}
    IN  IF hits = {} THEN None
        ELSE Some(instance.fields[CHOOSE i \in hits : \A j \in hits : i <= j])

\* serde_json::Value::as_str on an optional default value
DefaultAsStr(default_value) ==
    IF IsSome(default_value) /\ default_value[1].kind = "String"
    THEN Some(default_value[1].str)
    ELSE None

-----------------------------------------------------------------------------
(* src/hass_mqtt/climate.rs: capability parsing *)

\* impl TemperatureConstraints: as_unit
TemperatureConstraints_as_unit(self, unit) ==
    [min |-> TemperatureValue_as_unit(self.min, unit),
     max |-> TemperatureValue_as_unit(self.max, unit)]

\* A declared unit that defaults to Celsius when the "unit" field is absent
DeclaredUnits_DefaultCelsius(instance) ==
    LET field == struct_field_by_name(instance, "unit")
    IN  IF ~IsSome(field) THEN "Units::Celsius"
        ELSE LET str == DefaultAsStr(field[1].default_value)
             IN  IF str = Some(Txt_Celsius) THEN "Units::Celsius"
                 ELSE "Units::Farenheit"

\* parse_temperature_constraints: `units`, the unit the capability declares
DeclaredUnits(instance) ==
    LET field == struct_field_by_name(instance, "unit")
    IN  IF ~IsSome(field) THEN "Units::Farenheit"
        ELSE LET str == DefaultAsStr(field[1].default_value)
             IN  IF str = Some(Txt_Celsius) THEN "Units::Celsius"
                 ELSE IF str = Some(Txt_Farenheit) THEN "Units::Farenheit"
                 ELSE "Units::Farenheit"

\* parse_temperature_constraints: `range_units`, the unit of the raw range
RangeUnits(unit, units) ==
    IF unit = Some(Txt_Celsius) THEN "Units::Celsius"
    ELSE IF unit = Some(Txt_Farenheit) THEN "Units::Farenheit"
    ELSE units

\* An Integer arm that leaves max in the range's unit
IntegerConstraints_MaxUnconverted(unit, range, units) ==
    LET range_units == RangeUnits(unit, units)
        min == TemperatureValue_new(FromInt(range.min), range_units)
        max == TemperatureValue_new(FromInt(range.max), range_units)
    IN  [min |-> TemperatureValue_as_unit(min, units),
         max |-> max]

\* parse_temperature_constraints: the Integer arm of the match
IntegerConstraints(unit, range, units) ==
    LET range_units == RangeUnits(unit, units)
        min == TemperatureValue_new(FromInt(range.min), range_units)
        max == TemperatureValue_new(FromInt(range.max), range_units)
    IN  [min |-> TemperatureValue_as_unit(min, units),
         max |-> TemperatureValue_as_unit(max, units)]

\* A parser that answers a "temperature" field of another kind with an empty
\* range instead of an error
parse_temperature_constraints_Lenient(instance) ==
    LET units == DeclaredUnits(instance)
        temperature == struct_field_by_name(instance, "temperature")
    IN  IF ~IsSome(temperature) THEN Err("no temperature field")
        ELSE IF temperature[1].field_type.kind = "Integer"
             THEN Ok(IntegerConstraints(temperature[1].field_type.unit,
                                        temperature[1].field_type.range, units))
             ELSE Ok([min |-> TemperatureValue_new(FromInt(0), units),
                      max |-> TemperatureValue_new(FromInt(0), units)])

\* parse_temperature_constraints
parse_temperature_constraints(instance) ==
    LET units == DeclaredUnits(instance)
        temperature == struct_field_by_name(instance, "temperature")
    IN  IF ~IsSome(temperature) THEN Err("no temperature field")
        ELSE IF temperature[1].field_type.kind = "Integer"
             THEN Ok(IntegerConstraints(temperature[1].field_type.unit,
                                        temperature[1].field_type.range, units))
             ELSE Err("Unexpected temperature value")

-----------------------------------------------------------------------------
(* src/hass_mqtt/climate.rs: TargetTemperatureEntity *)

F32Mantissa == 16777216

\* The spacing of the f32 values around the magnitude a
RECURSIVE F32Spacing(_, _)
F32Spacing(a, step) ==
    IF a \div step < F32Mantissa THEN step ELSE F32Spacing(a, 2 * step)

\* `as f32` of an integer-valued f64: the nearest f32, ties to the even mantissa
AsF32(i) ==
    LET a == Abs(i)
        step == F32Spacing(a, 1)
        q == a \div step
        r == a % step
        up == 2 * r > step \/ (2 * r = step /\ q % 2 = 1)
        m == (IF up THEN q + 1 ELSE q) * step
    IN  IF i < 0 THEN -m ELSE m

\* A unique id that also carries the display unit of the moment
UniqueId_WithPreference(device, instance) ==
    topic_safe_id(device) \o <<"-">> \o topic_safe_string(instance.instance)
        \o <<"-">> \o TemperatureScale_to_string(pref)

\* TargetTemperatureEntity::new: unique_id
UniqueId(device, instance) ==
    topic_safe_id(device) \o <<"-">> \o topic_safe_string(instance.instance)

\* A command topic that spells the Fahrenheit token correctly
CommandTopic_SpelledFahrenheit(device, instance, units) ==
    Txt_gv2mqtt \o <<"/">> \o topic_safe_id(device) \o <<"/">> \o Txt_set_temperature
        \o <<"/">> \o topic_safe_string(instance.instance) \o <<"/">>
        \o (IF units = "Scale::Celsius" THEN Txt_Celsius ELSE Txt_Fahrenheit)

\* TargetTemperatureEntity::new: command_topic
CommandTopic(device, instance, units) ==
    Txt_gv2mqtt \o <<"/">> \o topic_safe_id(device) \o <<"/">> \o Txt_set_temperature
        \o <<"/">> \o topic_safe_string(instance.instance) \o <<"/">>
        \o TemperatureScale_to_string(units)

\* TargetTemperatureEntity::new: min and max of the NumberConfig
PublishedMin(constraints) == Some(AsF32(Floor(constraints.min.value)))
PublishedMax(constraints) == Some(AsF32(Ceil(constraints.max.value)))

\* A unit label that reads the preference again instead of using the snapshot
UnitOfMeasurement_Reread(units) == Some(TemperatureScale_unit_of_measurement(pref))

\* TargetTemperatureEntity::new: the unit label of the NumberConfig
UnitOfMeasurement(units) == Some(TemperatureScale_unit_of_measurement(units))

\* TargetTemperatureEntity::new: the NumberConfig of the entity
BuildNumberConfig(device, units, instance, constraints) ==
    [base |-> [name |-> Some(Txt_Target_Temperature),
               entity_category |-> None,
               device |-> device.id,
               unique_id |-> UniqueId(device, instance),
               device_class |-> Some("temperature"),
               icon |-> Some("mdi:thermometer")],
     state_topic |-> None,
     command_topic |-> CommandTopic(device, instance, units),
     min |-> PublishedMin(constraints),
     max |-> PublishedMax(constraints),
     step |-> 1,
     unit_of_measurement |-> UnitOfMeasurement(units)]

\* TargetTemperatureEntity::new from its .await on: a record of the call, with
\* the parsed and the normalized constraints it went through and its result
TargetTemperatureEntity_new(device, units, instance) ==
    LET parsed == parse_temperature_constraints(instance)
        constraints == IF parsed.ok
                       THEN Some(TemperatureConstraints_as_unit(parsed.val,
                                                                ScaleIntoUnits(units)))
                       ELSE None
    IN  [device |-> device,
         instance |-> instance,
         units |-> units,
         parsed |-> parsed,
         constraints |-> constraints,
         result |-> IF ~parsed.ok THEN Err(parsed.err)
                    ELSE Ok([number |-> BuildNumberConfig(device, units, instance,
                                                          constraints[1])])]

\* impl EntityInstance: publish_config, what it hands to the publisher
publish_config(self) == <<self.number>>

\* impl EntityInstance: notify_state, what it publishes and what it returns
notify_state(self) == [publish |-> <<>>, result |-> Ok("()")]

-----------------------------------------------------------------------------
(* The device registry and the router in front of mqtt_set_temperature *)

Device1 == [id |-> <<"A", "A", ":", "0", "1">>]
Device2 == [id |-> <<"B", "_", "0", "2">>]
Devices == {Device1, Device2}
UnknownId == <<"Z", "Z">>

\* StateHandle::resolve_device
resolve_device(id) ==
    LET hits == {d \in Devices : d.id = id \/ topic_safe_id(d) = id}
    IN  IF hits = {} THEN None ELSE Some(CHOOSE d \in hits : TRUE)

RECURSIVE SplitTopic(_)
SplitTopic(topic) ==
    LET slashes == {i \in 1..Len(topic) : topic[i] = "/"}
    IN  IF slashes = {} THEN <<topic>>
        ELSE LET i == CHOOSE k \in slashes : \A j \in slashes : k <= j
             IN  <<SubSeq(topic, 1, i - 1)>> \o SplitTopic(SubSeq(topic, i + 1, Len(topic)))

\* The route gv2mqtt/:id/set-temperature/:instance/:units: Params<IdInstAndUnits>
RouteParams(topic) ==
    LET seg == SplitTopic(topic)
    IN  IF Len(seg) = 5 /\ seg[1] = Txt_gv2mqtt /\ seg[3] = Txt_set_temperature
        THEN Some([id |-> seg[2], instance |-> seg[4], units |-> seg[5]])
        ELSE None

-----------------------------------------------------------------------------
(* src/hass_mqtt/climate.rs: mqtt_set_temperature *)

\* A handler that parses the topic's unit token and the payload before it
\* resolves the device
mqtt_set_temperature_ParseFirst(value, params, upstream) ==
    LET device == resolve_device(params.id)
        scale == TemperatureScale_from_str(params.units)
        target_value == TemperatureValue_parse_with_optional_scale(value, Some(scale.val))
    IN  IF ~scale.ok THEN [calls |-> <<>>, result |-> Err(scale.err)]
        ELSE IF ~target_value.ok THEN [calls |-> <<>>, result |-> Err(target_value.err)]
        ELSE IF ~IsSome(device) THEN [calls |-> <<>>, result |-> Err("device not found")]
        ELSE [calls |-> <<[device |-> device[1],
                           instance |-> params.instance,
                           target_value |-> target_value.val]>>,
              result |-> upstream]

\* A handler that falls back to Celsius on an unrecognized unit token
mqtt_set_temperature_FallbackUnit(value, params, upstream) ==
    LET device == resolve_device(params.id)
        parsed == TemperatureScale_from_str(params.units)
        scale == IF parsed.ok THEN parsed ELSE Ok("Scale::Celsius")
        target_value == TemperatureValue_parse_with_optional_scale(value, Some(scale.val))
    IN  IF ~IsSome(device) THEN [calls |-> <<>>, result |-> Err("device not found")]
        ELSE IF ~target_value.ok THEN [calls |-> <<>>, result |-> Err(target_value.err)]
        ELSE [calls |-> <<[device |-> device[1],
                           instance |-> params.instance,
                           target_value |-> target_value.val]>>,
              result |-> upstream]

\* A handler that calls the collaborator a second time when its call fails
mqtt_set_temperature_Retry(value, params, upstream) ==
    LET device == resolve_device(params.id)
        scale == TemperatureScale_from_str(params.units)
        target_value == TemperatureValue_parse_with_optional_scale(value, Some(scale.val))
        call == [device |-> device[1], instance |-> params.instance,
                 target_value |-> target_value.val]
    IN  IF ~IsSome(device) THEN [calls |-> <<>>, result |-> Err("device not found")]
        ELSE IF ~scale.ok THEN [calls |-> <<>>, result |-> Err(scale.err)]
        ELSE IF ~target_value.ok THEN [calls |-> <<>>, result |-> Err(target_value.err)]
        ELSE [calls |-> IF upstream.ok THEN <<call>> ELSE <<call, call>>,
              result |-> upstream]

\* The whole handler: the calls of device_set_target_temperature it makes and
\* its result; `upstream` is what the collaborator's call returns
mqtt_set_temperature(value, params, upstream) ==
    LET device == resolve_device(params.id)
        scale == TemperatureScale_from_str(params.units)
        target_value == TemperatureValue_parse_with_optional_scale(value, Some(scale.val))
    IN  IF ~IsSome(device) THEN [calls |-> <<>>, result |-> Err("device not found")]
        ELSE IF ~scale.ok THEN [calls |-> <<>>, result |-> Err(scale.err)]
        ELSE IF ~target_value.ok THEN [calls |-> <<>>, result |-> Err(target_value.err)]
        ELSE [calls |-> <<[device |-> device[1],
                           instance |-> params.instance,
                           target_value |-> target_value.val]>>,
              result |-> upstream]

-----------------------------------------------------------------------------
(* Inputs *)

IntegerField(unit, min, max) ==
    [field_name |-> "temperature",
     field_type |-> [kind |-> "Integer", unit |-> unit, range |-> [min |-> min, max |-> max]],
     default_value |-> None]

OtherField(name, kind) ==
    [field_name |-> name, field_type |-> [kind |-> kind], default_value |-> None]

UnitField(default_value) ==
    [field_name |-> "unit", field_type |-> [kind |-> "Enum"], default_value |-> default_value]

JsonString(text) == [kind |-> "String", str |-> text]
JsonNumber(i) == [kind |-> "Number", num |-> i]

Capability(name, fields) == [instance |-> name, fields |-> fields]

RangeValues == {0, 30, 86, 100}
UnitAttributes == {None, Some(Txt_Celsius), Some(Txt_Farenheit), Some(Txt_Fahrenheit),
                   Some(Txt_Kelvin)}

\* The "unit" field of a capability: absent, or present with some default
UnitFieldChoices ==
    {<<>>} \cup {<<UnitField(d)>> : d \in {None, Some(JsonNumber(1)),
                                             Some(JsonString(Txt_Celsius)),
                                             Some(JsonString(Txt_Farenheit)),
                                             Some(JsonString(Txt_Fahrenheit)),
                                             Some(JsonString(Txt_Kelvin))}}

\* The "temperature" field of a capability: absent, of another kind, or an
\* integer range
TemperatureFieldChoices ==
    {<<>>, <<OtherField("temperature", "Enum")>>, <<OtherField("temperature", "Struct")>>}
        \cup {<<IntegerField(u, lo, hi)>> : u \in UnitAttributes, lo \in RangeValues,
                                             hi \in RangeValues}

Name_t == <<"t">>
InstanceNames == {<<"t">>, <<"t", "/">>, <<"t", "_">>, <<"t", "_", "s">>}
RoutedNames == {<<"t">>, <<"t", "/">>, <<"t", "_", "s">>}

\* A capability in Celsius whose range ends just above 2^24
WideCapability ==
    Capability(Name_t, <<UnitField(Some(JsonString(Txt_Celsius))),
                         IntegerField(None, 0, 16777217)>>)

\* Every shape of capability, under one instance name
AllCapabilities ==
    {Capability(Name_t, u \o t) : u \in UnitFieldChoices, t \in TemperatureFieldChoices}
        \cup {WideCapability}

\* A well-formed thermostat capability and one without a temperature field
GoodCapability(name) ==
    Capability(name, <<UnitField(Some(JsonString(Txt_Farenheit))),
                       IntegerField(Some(Txt_Celsius), 0, 30)>>)
OtherGoodCapability(name) ==
    Capability(name, <<UnitField(Some(JsonString(Txt_Celsius))),
                       IntegerField(None, 30, 86)>>)
BadCapability(name) ==
    Capability(name, <<UnitField(Some(JsonString(Txt_Celsius)))>>)

Txt_21_5 == <<"2", "1", ".", "5">>
Payloads == {Txt_21_5, <<"-", "5">>, <<"a", "b", "c">>}
UnitTokens == {Txt_Celsius, Txt_Farenheit, Txt_Fahrenheit, Txt_Kelvin}
UpstreamOutcomes == {Ok("()"), Err("UpstreamError")}

\* Topics of the set-temperature route that no entity announces
SetTemperatureTopic(id, name, token) ==
    Txt_gv2mqtt \o <<"/">> \o id \o <<"/">> \o Txt_set_temperature \o <<"/">> \o name
        \o <<"/">> \o token

ForeignTopics ==
    {SetTemperatureTopic(topic_safe_id(Device2), Name_t, u) : u \in UnitTokens}
        \cup {SetTemperatureTopic(UnknownId, Name_t, u) : u \in {Txt_Celsius, Txt_Kelvin}}

-----------------------------------------------------------------------------
(* Actions *)

Init ==
    /\ pref \in TemperatureScale
    /\ pending = None
    /\ entities = {}
    /\ published = <<>>
    /\ notified = <<>>
    /\ lastCommand = None

\* StateHandle: the user changes the display-unit preference
SetPreference ==
    /\ \E s \in TemperatureScale : s # pref /\ pref' = s
    /\ UNCHANGED <<pending, entities, published, notified, lastCommand>>

\* TargetTemperatureEntity::new up to the .await of get_temperature_scale
New_Read(device, instance) ==
    /\ pending = None
    /\ Cardinality(entities) < MaxEntities
    /\ pending' = Some([device |-> device, instance |-> instance, units |-> pref])
    /\ UNCHANGED <<pref, entities, published, notified, lastCommand>>

\* TargetTemperatureEntity::new from the .await to its return
New_Build ==
    /\ IsSome(pending)
    /\ entities' = entities \cup {TargetTemperatureEntity_new(pending[1].device,
                                                              pending[1].units,
                                                              pending[1].instance)}
    /\ pending' = None
    /\ UNCHANGED <<pref, published, notified, lastCommand>>

PublishConfig ==
    /\ Len(published) < MaxPublish
    /\ \E e \in entities :
        /\ e.result.ok
        /\ published' = published \o publish_config(e.result.val)
    /\ UNCHANGED <<pref, pending, entities, notified, lastCommand>>

NotifyState ==
    /\ Len(notified) < MaxNotify
    /\ \E e \in entities :
        /\ e.result.ok
        /\ published' = published \o notify_state(e.result.val).publish
        /\ notified' = Append(notified, notify_state(e.result.val).result)
    /\ UNCHANGED <<pref, pending, entities, lastCommand>>

\* One inbound message on `topic`, routed to mqtt_set_temperature
MqttSetTemperature(topic, value, upstream) ==
    /\ IsSome(RouteParams(topic))
    /\ LET params == RouteParams(topic)[1]
           done == mqtt_set_temperature(value, params, upstream)
       IN  lastCommand' = Some([topic |-> topic, value |-> value, params |-> params,
                                upstream |-> upstream, calls |-> done.calls,
                                result |-> done.result])
    /\ UNCHANGED <<pref, pending, entities, published, notified>>

AnnouncedTopics == {e.result.val.number.command_topic : e \in {x \in entities : x.result.ok}}

-----------------------------------------------------------------------------
(* Specifications *)

\* The life of entities: construction, preference changes, publication
LifecycleInputs == {GoodCapability(Name_t), BadCapability(Name_t)}

Next ==
    \/ \E d \in Devices, c \in LifecycleInputs : New_Read(d, c)
    \/ New_Build
    \/ SetPreference
    \/ PublishConfig
    \/ NotifyState

Spec == Init /\ [][Next]_vars

\* Construction from every shape of capability
NextParse ==
    \/ (entities = {} /\ \E c \in AllCapabilities : New_Read(Device1, c))
    \/ New_Build
    \/ SetPreference

SpecParse == Init /\ [][NextParse]_vars

\* Construction under several instance names and ranges
IdsInputs == UNION {{GoodCapability(n), OtherGoodCapability(n)} : n \in InstanceNames}

NextIds ==
    \/ \E d \in Devices, c \in IdsInputs : New_Read(d, c)
    \/ New_Build
    \/ SetPreference

SpecIds == Init /\ [][NextIds]_vars

\* Inbound commands, on the topics entities announce and on others
RouterInputs == UNION {{GoodCapability(n), BadCapability(n)} : n \in RoutedNames}

NextRouter ==
    \/ (entities = {} /\ \E c \in RouterInputs : New_Read(Device1, c))
    \/ New_Build
    \/ SetPreference
    \/ \E t \in AnnouncedTopics \cup ForeignTopics, v \in Payloads, u \in UpstreamOutcomes :
          MqttSetTemperature(t, v, u)

SpecRouter == Init /\ [][NextRouter]_vars

-----------------------------------------------------------------------------
(* Claims about mqtt_set_temperature, under SpecRouter *)

Handled == IsSome(lastCommand)
Cmd == lastCommand[1]

\* Stated without the parsers: the ids of the registry, the two wire tokens,
\* and the numbers the payloads denote
IdResolves(id) == \E d \in Devices : id \in {d.id, topic_safe_id(d)}
TokenRecognized(token) == token \in {Txt_Celsius, Txt_Farenheit}
PayloadNumeric(value) == value \in {Txt_21_5, <<"-", "5">>}
PayloadNumber(value) == IF value = Txt_21_5 THEN [n |-> 43, d |-> 2] ELSE [n |-> -5, d |-> 1]
TokenUnits(token) == IF token = Txt_Celsius THEN "Units::Celsius" ELSE "Units::Farenheit"
IsParseError(result) ==
    /\ ~result.ok
    /\ result.err \in {"ParseError: unknown temperature scale", "ParseError: not a number"}

\* C1: when the device id does not resolve, the invocation fails with the
\* not-found error and makes no call of device_set_target_temperature, whatever
\* the unit token and the payload are.
C1_UnknownDeviceNotFound ==
    (Handled /\ ~IdResolves(Cmd.params.id)) =>
        /\ Cmd.result = Err("device not found")
        /\ Cmd.calls = <<>>

C1_Witness ==
    /\ Handled
    /\ ~IdResolves(Cmd.params.id)
    /\ Cmd.params.units = Txt_Kelvin
    /\ Cmd.value = <<"a", "b", "c">>
    /\ Cmd.result = Err("device not found")

\* C2: when the device id resolves but the unit token is not a recognized token
\* or the payload is not a number, the invocation fails with a parse error and
\* makes no call of device_set_target_temperature.
C2_ParseFailureNoCall ==
    (/\ Handled
     /\ IdResolves(Cmd.params.id)
     /\ (~TokenRecognized(Cmd.params.units) \/ ~PayloadNumeric(Cmd.value))) =>
        /\ IsParseError(Cmd.result)
        /\ Cmd.calls = <<>>

C2_Witness ==
    /\ Handled
    /\ IdResolves(Cmd.params.id)
    /\ Cmd.params.units = Txt_Kelvin
    /\ PayloadNumeric(Cmd.value)
    /\ IsParseError(Cmd.result)

\* C3: when the device resolves and the unit token and the payload parse, the
\* handler calls device_set_target_temperature exactly once, with the resolved
\* device, the instance of the topic and the payload's number in the scale the
\* token names, unconverted; the call's result, a failure included, is the
\* invocation's result.
C3_ForwardedOnceUnchanged ==
    (/\ Handled
     /\ IdResolves(Cmd.params.id)
     /\ TokenRecognized(Cmd.params.units)
     /\ PayloadNumeric(Cmd.value)) =>
        /\ Len(Cmd.calls) = 1
        /\ Cmd.params.id \in {Cmd.calls[1].device.id, topic_safe_id(Cmd.calls[1].device)}
        /\ Cmd.calls[1].instance = Cmd.params.instance
        /\ Cmd.calls[1].target_value =
               [value |-> PayloadNumber(Cmd.value), unit |-> TokenUnits(Cmd.params.units)]
        /\ Cmd.result = Cmd.upstream

C3_Witness ==
    /\ Handled
    /\ Cmd.params.units = Txt_Celsius
    /\ Cmd.value = Txt_21_5
    /\ Len(Cmd.calls) = 1
    /\ Cmd.calls[1].target_value = [value |-> [n |-> 43, d |-> 2], unit |-> "Units::Celsius"]
    /\ Cmd.result = Err("UpstreamError")

-----------------------------------------------------------------------------
(* Claims about the command topic, under SpecRouter *)

Built == {e \in entities : e.result.ok}
Number(e) == e.result.val.number
ScaleToken(scale) == IF scale = "Scale::Celsius" THEN Txt_Celsius ELSE Txt_Farenheit
ScaleLabel(scale) == IF scale = "Scale::Celsius" THEN <<"deg", "C">> ELSE <<"deg", "F">>
ScaleUnits(scale) == IF scale = "Scale::Celsius" THEN "Units::Celsius" ELSE "Units::Farenheit"

\* C9: the command topic is gv2mqtt/<topic-safe device id>/set-temperature/
\* <topic-safe instance>/<unitToken>, its token is Celsius or Farenheit and names
\* the unit of the entity's range and unit label; the route gives the token
\* back, and a command arriving on the topic is forwarded in the scale the
\* entity was built with, to the entity's device.
C9_TopicNamesDisplayUnit ==
    /\ \A e \in Built :
        LET safeId == topic_safe_id(e.device)
            safeInstance == topic_safe_string(e.instance.instance)
        IN  /\ Number(e).command_topic =
                   SetTemperatureTopic(safeId, safeInstance, ScaleToken(e.units))
            /\ Number(e).unit_of_measurement = Some(ScaleLabel(e.units))
            /\ e.constraints[1].min.unit = ScaleUnits(e.units)
            /\ e.constraints[1].max.unit = ScaleUnits(e.units)
            /\ RouteParams(Number(e).command_topic) =
                   Some([id |-> safeId, instance |-> safeInstance,
                         units |-> ScaleToken(e.units)])
    /\ \A e \in Built :
        (Handled /\ Cmd.topic = Number(e).command_topic /\ PayloadNumeric(Cmd.value)) =>
            /\ Len(Cmd.calls) = 1
            /\ Cmd.calls[1].device = e.device
            /\ Cmd.calls[1].target_value.unit = ScaleUnits(e.units)

C9_Witness ==
    \E e \in Built :
        /\ e.instance.instance = <<"t", "/">>
        /\ e.units = "Scale::Farenheit"
        /\ pref = "Scale::Celsius"
        /\ Handled
        /\ Cmd.topic = Number(e).command_topic
        /\ Len(Cmd.calls) = 1
        /\ Cmd.calls[1].target_value.unit = "Units::Farenheit"

-----------------------------------------------------------------------------
(* Claims about capability parsing and the published range, under SpecParse *)

TemperatureFieldOf(e) == struct_field_by_name(e.instance, "temperature")
HasRange(e) ==
    IsSome(TemperatureFieldOf(e)) /\ TemperatureFieldOf(e)[1].field_type.kind = "Integer"
SourceRange(e) == TemperatureFieldOf(e)[1].field_type.range
SourceAttribute(e) == TemperatureFieldOf(e)[1].field_type.unit

\* C4: the published min is floor(normalized min) and the published max is
\* ceil(normalized max), so published min <= normalized min and published
\* max >= normalized max, and the step is 1.
C4_PublishedRangeCovers ==
    \A e \in Built :
        LET c == e.constraints[1]
        IN  /\ Number(e).min = Some(Floor(c.min.value))
            /\ Number(e).max = Some(Ceil(c.max.value))
            /\ FracLeq(FromInt(Number(e).min[1]), c.min.value)
            /\ FracLeq(c.max.value, FromInt(Number(e).max[1]))
            /\ Number(e).step = 1

\* The same statement for ranges whose normalized bounds an f32 holds exactly
C4_CoversWithinF32 ==
    \A e \in Built :
        LET c == e.constraints[1]
        IN  (Abs(Floor(c.min.value)) <= F32Mantissa /\ Abs(Ceil(c.max.value)) <= F32Mantissa) =>
                /\ Number(e).min = Some(Floor(c.min.value))
                /\ Number(e).max = Some(Ceil(c.max.value))
                /\ FracLeq(FromInt(Number(e).min[1]), c.min.value)
                /\ FracLeq(c.max.value, FromInt(Number(e).max[1]))
                /\ Number(e).step = 1

\* The reference of C5: the declared unit, and the conversion of a raw integer
C5_Declared(e) ==
    IF \E i \in 1..Len(e.instance.fields) :
           /\ e.instance.fields[i].field_name = "unit"
           /\ e.instance.fields[i].default_value = Some(JsonString(Txt_Celsius))
    THEN "Units::Celsius"
    ELSE "Units::Farenheit"

C5_Convert(i, from, to) ==
    IF from = to THEN [n |-> i, d |-> 1]
    ELSE IF to = "Units::Farenheit" THEN Frac(9 * i + 160, 5)
    ELSE Frac(5 * (i - 32), 9)

C5_Expected(e, rangeUnits) ==
    Ok([min |-> [value |-> C5_Convert(SourceRange(e).min, rangeUnits, C5_Declared(e)),
                 unit |-> C5_Declared(e)],
        max |-> [value |-> C5_Convert(SourceRange(e).max, rangeUnits, C5_Declared(e)),
                 unit |-> C5_Declared(e)]])

\* The unit a unit attribute names, in either spelling of Fahrenheit
C5_NamedUnit(text) == IF text = Txt_Celsius THEN "Units::Celsius" ELSE "Units::Farenheit"

\* C5 as stated: the raw range is read in the field's own unit attribute
\* whenever it has one that names Celsius or Fahrenheit, otherwise in the
\* declared unit, and converted into the declared unit.
C5_AttributeAlwaysOverrides ==
    \A e \in entities :
        (HasRange(e) /\ SourceAttribute(e) # Some(Txt_Kelvin)) =>
            e.parsed = C5_Expected(e, IF SourceAttribute(e) = None THEN C5_Declared(e)
                                      ELSE C5_NamedUnit(SourceAttribute(e)[1]))

\* C5, amended: the declared unit is Celsius exactly when a "unit" field has the
\* default "Celsius" and Fahrenheit otherwise; the raw range is read as Celsius
\* when the field's unit attribute is exactly "Celsius", as Fahrenheit when it
\* is exactly "Farenheit", and in the declared unit otherwise (no attribute, or
\* any other one); the result is the range converted into the declared unit.
\* Declared Fahrenheit with the range 0..30 tagged Celsius gives 32..86.
C5_RecognizedAttributeOverrides ==
    \A e \in entities :
        HasRange(e) =>
            /\ e.parsed = C5_Expected(e, IF SourceAttribute(e) = Some(Txt_Celsius)
                                         THEN "Units::Celsius"
                                         ELSE IF SourceAttribute(e) = Some(Txt_Farenheit)
                                         THEN "Units::Farenheit"
                                         ELSE C5_Declared(e))
            /\ (/\ C5_Declared(e) = "Units::Farenheit"
                /\ SourceAttribute(e) = Some(Txt_Celsius)
                /\ SourceRange(e) = [min |-> 0, max |-> 30]) =>
                   e.parsed = Ok([min |-> [value |-> [n |-> 32, d |-> 1],
                                           unit |-> "Units::Farenheit"],
                                  max |-> [value |-> [n |-> 86, d |-> 1],
                                           unit |-> "Units::Farenheit"]])

C5_Witness ==
    \E e \in entities :
        /\ HasRange(e)
        /\ struct_field_by_name(e.instance, "unit") = None
        /\ SourceAttribute(e) = Some(Txt_Celsius)
        /\ SourceRange(e) = [min |-> 0, max |-> 30]
        /\ e.parsed.ok
        /\ e.parsed.val.max.value = [n |-> 86, d |-> 1]

\* C6: without a "temperature" field, or with one of another kind than the
\* integer range, parse_temperature_constraints fails with a schema error
\* whatever the "unit" field is, and TargetTemperatureEntity::new fails with the
\* same error and builds no entity description.
C6_SchemaErrorPropagates ==
    \A e \in entities :
        ~HasRange(e) =>
            /\ e.parsed = IF IsSome(TemperatureFieldOf(e))
                          THEN Err("Unexpected temperature value")
                          ELSE Err("no temperature field")
            /\ e.result = e.parsed
            /\ DOMAIN e.result = {"ok", "err"}
            /\ e.constraints = None

C6_Witness ==
    /\ \E e \in entities :
        /\ IsSome(TemperatureFieldOf(e))
        /\ ~HasRange(e)
        /\ struct_field_by_name(e.instance, "unit") # None
        /\ e.result = Err("Unexpected temperature value")

\* C7: the order of min and max goes through parsing and normalization as it
\* is: a source range with min <= max gives parsed and normalized constraints
\* with min <= max, one with min > max gives min > max; and at each stage min
\* and max carry the same unit.
C7_OrderAndUnitPreserved ==
    \A e \in Built :
        LET p == e.parsed.val
            c == e.constraints[1]
        IN  /\ p.min.unit = p.max.unit
            /\ c.min.unit = c.max.unit
            /\ (SourceRange(e).min <= SourceRange(e).max) =>
                   (FracLeq(p.min.value, p.max.value) /\ FracLeq(c.min.value, c.max.value))
            /\ (SourceRange(e).min > SourceRange(e).max) =>
                   (FracLt(p.max.value, p.min.value) /\ FracLt(c.max.value, c.min.value))

C7_Witness ==
    \E e \in Built :
        /\ SourceRange(e).min > SourceRange(e).max
        /\ SourceAttribute(e) = Some(Txt_Celsius)
        /\ e.parsed.val.min.unit = "Units::Farenheit"
        /\ e.constraints[1].min.unit = "Units::Celsius"
        /\ FracLt(e.constraints[1].max.value, e.constraints[1].min.value)

-----------------------------------------------------------------------------
(* Claims about the unique id, under SpecIds *)

UniqueIdOf(e) == Number(e).base.unique_id

\* C8: the unique id is "<topic-safe device id>-<topic-safe instance name>";
\* two entities of one device with different instance names have different
\* ids, and two of one device and one instance name have the same id, whatever
\* the display-unit preference and the range were when each was built.
C8_UniqueIdStable ==
    \A a \in Built, b \in Built :
        /\ UniqueIdOf(a) = topic_safe_id(a.device) \o <<"-">>
                               \o topic_safe_string(a.instance.instance)
        /\ (a.device = b.device /\ a.instance.instance # b.instance.instance) =>
               UniqueIdOf(a) # UniqueIdOf(b)
        /\ (a.device = b.device /\ a.instance.instance = b.instance.instance) =>
               UniqueIdOf(a) = UniqueIdOf(b)

C8_Witness ==
    \E a \in Built, b \in Built :
        /\ a.device = b.device
        /\ a.instance.instance = <<"t", "/">>
        /\ b.instance.instance = <<"t", "_", "s">>
        /\ a.units # b.units
        /\ a.instance.fields # b.instance.fields
        /\ UniqueIdOf(a) # UniqueIdOf(b)

-----------------------------------------------------------------------------
(* Claims about the life of an entity, under Spec *)

\* The unit token, the range and the unit label of every entity name the unit
\* of its one snapshot of the preference, and only built entities are published
SnapshotAgrees ==
    /\ \A e \in Built :
        /\ RouteParams(Number(e).command_topic)[1].units = ScaleToken(e.units)
        /\ e.constraints[1].min.unit = ScaleUnits(e.units)
        /\ e.constraints[1].max.unit = ScaleUnits(e.units)
        /\ Number(e).min = PublishedMin(e.constraints[1])
        /\ Number(e).max = PublishedMax(e.constraints[1])
        /\ Number(e).unit_of_measurement = Some(ScaleLabel(e.units))
    /\ \A i \in 1..Len(published) : \E e \in Built : published[i] = Number(e)

\* No step changes or drops a built entity; the snapshot is the preference at
\* the read and is what the entity is built with; a step of notify_state
\* publishes nothing and returns Ok
EntitiesKept ==
    /\ entities \subseteq entities'
    /\ (IsSome(pending') /\ pending' # pending) => pending'[1].units = pref
    /\ (IsSome(pending) /\ pending' # pending) =>
           \A e \in entities' \ entities : e.units = pending[1].units
    /\ notified' # notified =>
           /\ published' = published
           /\ Len(notified') = Len(notified) + 1
           /\ notified'[Len(notified')] = Ok("()")
           /\ SubSeq(notified', 1, Len(notified)) = notified

\* C10: the unit token of the command topic, the published range and the unit
\* label of an entity all come from the one snapshot of the preference taken by
\* TargetTemperatureEntity::new; afterwards no preference change, publish_config
\* or notify_state changes a built entity, and notify_state publishes nothing
\* and succeeds.
C10_SnapshotImmutable == []SnapshotAgrees /\ [][EntitiesKept]_vars

C10_Witness ==
    /\ \E e \in Built : e.units # pref
    /\ \E e \in Built : e.units = pref
    /\ Len(published) >= 1
    /\ Len(notified) >= 1

====
